---- MODULE Spec2Model ----
(***************************************************************************)
(* Model of src/js/security.js (class WebsiteSecurity): CSRF token          *)
(* injection, field and file validation, per-field error annotations and   *)
(* the transient security notification.                                    *)
(*                                                                         *)
(* The page the class is constructed on:                                   *)
(*   <form id=F1>  <input type=text name=name required>                     *)
(*                 <input type=email name=email>                            *)
(*                 <input type=password name=pw required>  </form>          *)
(*   <form id=F2>  <input type=hidden name=csrf_token value=server>         *)
(*                 <div id=D2><input type=file name=doc required>           *)
(*                   <p id=D3><input type=email name=contact required>    *)
(*                   </p>                                                  *)
(*                 </div>  </form>                                          *)
(*   <form id=F3>  (no input)  </form>                                      *)
(* The constructor wraps pw into a <div> W (password toggle) and appends a  *)
(* hidden csrf_token input to every form that has none.                    *)
(***************************************************************************)
EXTENDS Integers, Sequences, FiniteSets, TLC

VARIABLES
    csrfToken,    \* this.csrfToken
    tokenFields,  \* per form: its [name="csrf_token"] inputs, in document order
    listeners,    \* how many times the listeners of enhanceFormSecurity are attached
    value,        \* field.value of the page's inputs
    files,        \* input.files of the file inputs
    errs,         \* per element: the .field-error children appended to it
    errorClass,   \* the inputs whose classList contains 'error'
    messages,     \* the .security-message elements of document.body
    timers,       \* pending setTimeout callbacks (the message each one closes over)
    nextMsg,      \* identity of the next created message element
    probe,        \* the field or file a validator is applied to on its own
    lastOp        \* the last event handled and what its handler returned

vars == <<csrfToken, tokenFields, listeners, value, files, errs, errorClass,
          messages, timers, nextMsg, probe, lastOp>>

----------------------------------------------------------------------------
(* Bounds *)

\* most .field-error elements kept under one element
MaxErrs == 2
\* most notifications created in one behaviour
MaxMsgs == 2
\* longest field value given to validateField on its own
MaxLen == 5
\* most runs of enhanceFormSecurity
MaxRuns == 3

----------------------------------------------------------------------------
(* The page *)

None == "none"

Forms == {"F1", "F2", "F3"}

Elements == {"F1", "W", "F2", "D2", "D3", "F3"}

\* child elements that can hold descendants, in document order
kids ==
    [F1 |-> <<"W">>, W |-> <<>>, F2 |-> <<"D2">>, D2 |-> <<"D3">>, D3 |-> <<>>,
     F3 |-> <<>>]

Fields == {"name", "email", "pw", "doc", "contact"}

FileFields == {"doc"}

fieldType ==
    [name |-> "text", email |-> "email", pw |-> "password", doc |-> "file",
     contact |-> "email"]

fieldRequired ==
    [name |-> TRUE, email |-> FALSE, pw |-> TRUE, doc |-> TRUE, contact |-> TRUE]

\* field.parentNode after construction
parentNode ==
    [name |-> "F1", email |-> "F1", pw |-> "W", doc |-> "D2", contact |-> "D3"]

\* the page's own inputs of each form, in document order
formFields ==
    [F1 |-> <<"name", "email", "pw">>, F2 |-> <<"doc", "contact">>, F3 |-> <<>>]

FieldsIn(form) == {formFields[form][i] : i \in 1..Len(formFields[form])}

\* csrf_token inputs the page's markup already has
markupTokens ==
    [F1 |-> <<>>, F2 |-> <<[value |-> <<"server">>, injected |-> FALSE]>>, F3 |-> <<>>]

ErrRequired == "This field is required"
ErrEmail == "Please enter a valid email address"
ErrFileType == "Invalid file type. Allowed: JPG, PNG, PDF, DOC (max 5MB)"
ErrFileSize == "File too large. Maximum size is 5MB"
MsgFormErrors == "Please fix form errors before submitting."
MsgFileGood == "File looks good!"

allowedTypes ==
    {"image/jpeg", "image/png", "application/pdf", "application/msword",
     "application/vnd.openxmlformats-officedocument.wordprocessingml.document"}

maxSize == 5 * 1024 * 1024

----------------------------------------------------------------------------
(* Strings are sequences of characters *)

WhiteSpace == {" "}

RECURSIVE trimStart(_)
trimStart(s) ==
    IF s # <<>> /\ Head(s) \in WhiteSpace THEN trimStart(Tail(s)) ELSE s

RECURSIVE trimEnd(_)
trimEnd(s) ==
    IF s # <<>> /\ s[Len(s)] \in WhiteSpace
    THEN trimEnd(SubSeq(s, 1, Len(s) - 1))
    ELSE s

trim(s) == trimEnd(trimStart(s))

\* [^\s@]+
NoSpaceNoAt(s, from, to) ==
    /\ from <= to
    /\ \A k \in from..to : s[k] \notin WhiteSpace /\ s[k] # "@"

\* /^[^\s@]+@[^\s@]+\.[^\s@]+$/.test(s)
emailRegexTest(s) ==
    \E i \in 1..Len(s) : \E j \in 1..Len(s) :
        /\ s[i] = "@"
        /\ s[j] = "."
        /\ NoSpaceNoAt(s, 1, i - 1)
        /\ NoSpaceNoAt(s, i + 1, j - 1)
        /\ NoSpaceNoAt(s, j + 1, Len(s))

\* 'csrf_' + random + '_' + time
generateCSRFToken(rnd, now) == <<"csrf_", rnd, "_", now>>

----------------------------------------------------------------------------
(* The document, as the handlers read and change it *)

Dom ==
    [errs |-> errs, errorClass |-> errorClass, value |-> value, files |-> files,
     messages |-> messages, timers |-> timers, nextMsg |-> nextMsg]

FieldEl(f) ==
    [id |-> f, type |-> fieldType[f], required |-> fieldRequired[f],
     parent |-> parentNode[f], held |-> <<>>]

\* a csrf_token input: a child of its form, hidden, not required
TokenEl(form, t) ==
    [id |-> "csrf_token", type |-> "hidden", required |-> FALSE,
     parent |-> form, held |-> t.value]

valueOf(d, el) == IF el.id \in Fields THEN d.value[el.id] ELSE el.held

FieldEls(form) == [i \in 1..Len(formFields[form]) |-> FieldEl(formFields[form][i])]

TokenEls(form, toks) == [i \in 1..Len(toks) |-> TokenEl(form, toks[i])]

\* form.querySelectorAll('input, textarea'): the markup's token inputs come
\* first in the form, an injected one was appended to it
Inputs(form) ==
    TokenEls(form, SelectSeq(tokenFields[form], LAMBDA t : ~t.injected))
        \o FieldEls(form)
        \o TokenEls(form, SelectSeq(tokenFields[form], LAMBDA t : t.injected))

\* the element holding the first .field-error descendant of p in document
\* order: the descendants of p's child elements come before the error
\* elements appended to p itself
RECURSIVE querySelectorFieldError(_, _)
querySelectorFieldError(e, p) ==
    LET hits == {i \in 1..Len(kids[p]) : querySelectorFieldError(e, kids[p][i]) # None}
    IN  IF hits # {}
        THEN querySelectorFieldError(e,
                 kids[p][CHOOSE i \in hits : \A j \in hits : i <= j])
        ELSE IF e[p] # <<>> THEN p ELSE None

clearFieldError(d, el) ==
    LET holder == querySelectorFieldError(d.errs, el.parent)
    IN  [d EXCEPT
            !.errs = IF holder = None THEN @ ELSE [@ EXCEPT ![holder] = Tail(@)],
            !.errorClass = @ \ {el.id}]

\* variant: the field is not marked
showFieldError_noMark(d, el, message) ==
    LET c == clearFieldError(d, el)
    IN  [c EXCEPT !.errs[el.parent] = Append(@, [owner |-> el.id, msg |-> message])]

\* variant: the rejected value is wiped from the field
showFieldError_wipesValue(d, el, message) ==
    LET c == clearFieldError(d, el)
    IN  [c EXCEPT
            !.errs[el.parent] = Append(@, [owner |-> el.id, msg |-> message]),
            !.errorClass = @ \cup {el.id},
            !.value = IF el.id \in Fields THEN [@ EXCEPT ![el.id] = <<>>] ELSE @]

showFieldError(d, el, message) ==
    LET c == clearFieldError(d, el)
    IN  [c EXCEPT
            !.errs[el.parent] = Append(@, [owner |-> el.id, msg |-> message]),
            !.errorClass = @ \cup {el.id}]

\* variant: the value is not trimmed
validateField_noTrim(d, el) ==
    LET v == valueOf(d, el)
    IN  IF el.type = "email" /\ v # <<>> /\ ~emailRegexTest(v)
        THEN [ok |-> FALSE, dom |-> showFieldError(d, el, ErrEmail)]
        ELSE IF el.required /\ v = <<>>
        THEN [ok |-> FALSE, dom |-> showFieldError(d, el, ErrRequired)]
        ELSE [ok |-> TRUE, dom |-> clearFieldError(d, el)]

\* variant: the required rule looks at the untrimmed value
validateField_rawRequired(d, el) ==
    LET v == trim(valueOf(d, el))
    IN  IF el.type = "email" /\ v # <<>> /\ ~emailRegexTest(v)
        THEN [ok |-> FALSE, dom |-> showFieldError(d, el, ErrEmail)]
        ELSE IF el.required /\ valueOf(d, el) = <<>>
        THEN [ok |-> FALSE, dom |-> showFieldError(d, el, ErrRequired)]
        ELSE [ok |-> TRUE, dom |-> clearFieldError(d, el)]

validateField(d, el) ==
    LET v == trim(valueOf(d, el))
    IN  IF el.type = "email" /\ v # <<>> /\ ~emailRegexTest(v)
        THEN [ok |-> FALSE, dom |-> showFieldError(d, el, ErrEmail)]
        ELSE IF el.required /\ v = <<>>
        THEN [ok |-> FALSE, dom |-> showFieldError(d, el, ErrRequired)]
        ELSE [ok |-> TRUE, dom |-> clearFieldError(d, el)]

\* variant: the verdict of the last input overwrites the earlier ones
RECURSIVE validateInputs_lastWins(_, _, _)
validateInputs_lastWins(d, inputs, isValid) ==
    IF inputs = <<>>
    THEN [ok |-> isValid, dom |-> d]
    ELSE LET r == validateField(d, Head(inputs))
         IN  validateInputs_lastWins(r.dom, Tail(inputs), r.ok)

RECURSIVE validateInputs(_, _, _)
validateInputs(d, inputs, isValid) ==
    IF inputs = <<>>
    THEN [ok |-> isValid, dom |-> d]
    ELSE LET r == validateField(d, Head(inputs))
         IN  validateInputs(r.dom, Tail(inputs), IF ~r.ok THEN FALSE ELSE isValid)

validateForm(d, form) == validateInputs(d, Inputs(form), TRUE)

\* variant: the messages already displayed are left in place
showSecurityMessage_keepOld(d, message, type) ==
    [d EXCEPT
        !.messages = Append(@, [id |-> d.nextMsg, text |-> message, kind |-> type]),
        !.timers = Append(@, d.nextMsg),
        !.nextMsg = @ + 1]

showSecurityMessage(d, message, type) ==
    [d EXCEPT
        !.messages = Append(SelectSeq(@, LAMBDA m : FALSE),
                            [id |-> d.nextMsg, text |-> message, kind |-> type]),
        !.timers = Append(@, d.nextMsg),
        !.nextMsg = @ + 1]

\* variant: a file that is too large stays selected
validateFileUpload_keepsLarge(d, el) ==
    IF d.files[el.id] = <<>>
    THEN [ok |-> TRUE, dom |-> d]
    ELSE LET file == d.files[el.id][1]
         IN  IF file.type \notin allowedTypes
             THEN [ok |-> FALSE,
                   dom |-> [showFieldError(d, el, ErrFileType) EXCEPT
                               !.value[el.id] = <<>>, !.files[el.id] = <<>>]]
             ELSE IF file.size > maxSize
             THEN [ok |-> FALSE, dom |-> showFieldError(d, el, ErrFileSize)]
             ELSE [ok |-> TRUE,
                   dom |-> showSecurityMessage(clearFieldError(d, el),
                                               MsgFileGood, "success")]

\* variant: a file of exactly maxSize bytes is too large
validateFileUpload_sizeInclusive(d, el) ==
    IF d.files[el.id] = <<>>
    THEN [ok |-> TRUE, dom |-> d]
    ELSE LET file == d.files[el.id][1]
         IN  IF file.type \notin allowedTypes
             THEN [ok |-> FALSE,
                   dom |-> [showFieldError(d, el, ErrFileType) EXCEPT
                               !.value[el.id] = <<>>, !.files[el.id] = <<>>]]
             ELSE IF file.size >= maxSize
             THEN [ok |-> FALSE,
                   dom |-> [showFieldError(d, el, ErrFileSize) EXCEPT
                               !.value[el.id] = <<>>, !.files[el.id] = <<>>]]
             ELSE [ok |-> TRUE,
                   dom |-> showSecurityMessage(clearFieldError(d, el),
                                               MsgFileGood, "success")]

\* variant: an empty selection clears the field's error
validateFileUpload_emptyClears(d, el) ==
    IF d.files[el.id] = <<>>
    THEN [ok |-> TRUE, dom |-> clearFieldError(d, el)]
    ELSE LET file == d.files[el.id][1]
         IN  IF file.type \notin allowedTypes
             THEN [ok |-> FALSE,
                   dom |-> [showFieldError(d, el, ErrFileType) EXCEPT
                               !.value[el.id] = <<>>, !.files[el.id] = <<>>]]
             ELSE IF file.size > maxSize
             THEN [ok |-> FALSE,
                   dom |-> [showFieldError(d, el, ErrFileSize) EXCEPT
                               !.value[el.id] = <<>>, !.files[el.id] = <<>>]]
             ELSE [ok |-> TRUE,
                   dom |-> showSecurityMessage(clearFieldError(d, el),
                                               MsgFileGood, "success")]

validateFileUpload(d, el) ==
    IF d.files[el.id] = <<>>
    THEN [ok |-> TRUE, dom |-> d]
    ELSE LET file == d.files[el.id][1]
         IN  IF file.type \notin allowedTypes
             THEN [ok |-> FALSE,
                   dom |-> [showFieldError(d, el, ErrFileType) EXCEPT
                               !.value[el.id] = <<>>, !.files[el.id] = <<>>]]
             ELSE IF file.size > maxSize
             THEN [ok |-> FALSE,
                   dom |-> [showFieldError(d, el, ErrFileSize) EXCEPT
                               !.value[el.id] = <<>>, !.files[el.id] = <<>>]]
             ELSE [ok |-> TRUE,
                   dom |-> showSecurityMessage(clearFieldError(d, el),
                                               MsgFileGood, "success")]

\* variant: the message is shown whatever the verdict
submitListener_alwaysNotifies(d, form) ==
    LET r == validateForm(d, form)
    IN  [prevented |-> ~r.ok,
         dom |-> showSecurityMessage(r.dom, MsgFormErrors, "error")]

\* the submit listener of a form
submitListener(d, form) ==
    LET r == validateForm(d, form)
    IN  IF ~r.ok
        THEN [prevented |-> TRUE,
              dom |-> showSecurityMessage(r.dom, MsgFormErrors, "error")]
        ELSE [prevented |-> FALSE, dom |-> r.dom]

\* every attached submit listener runs; the default action is prevented when
\* one of them prevented it
RECURSIVE dispatchSubmit(_, _, _)
dispatchSubmit(d, form, n) ==
    IF n = 0
    THEN [prevented |-> FALSE, dom |-> d]
    ELSE LET r == submitListener(d, form)
             rest == dispatchSubmit(r.dom, form, n - 1)
         IN  [prevented |-> r.prevented \/ rest.prevented, dom |-> rest.dom]

RECURSIVE dispatchBlur(_, _, _)
dispatchBlur(d, el, n) ==
    IF n = 0
    THEN [ok |-> TRUE, dom |-> d]
    ELSE LET r == validateField(d, el)
             rest == dispatchBlur(r.dom, el, n - 1)
         IN  [ok |-> r.ok /\ rest.ok, dom |-> rest.dom]

RECURSIVE dispatchInput(_, _, _)
dispatchInput(d, el, n) ==
    IF n = 0 THEN d ELSE dispatchInput(clearFieldError(d, el), el, n - 1)

\* variant: the callback removes nothing
autoRemove_never(d, id) == d

\* variant: the callback removes whichever message is displayed
autoRemove_displayed(d, id) == [d EXCEPT !.messages = <<>>]

\* the deferred callback of showSecurityMessage for message id
autoRemove(d, id) ==
    IF \E i \in 1..Len(d.messages) : d.messages[i].id = id
    THEN [d EXCEPT !.messages = SelectSeq(@, LAMBDA m : m.id # id)]
    ELSE d

\* variant: the token input is appended without looking for one
injectToken_always(toks, token) == Append(toks, [value |-> token, injected |-> TRUE])

\* the forEach body of enhanceFormSecurity on one form's token inputs
injectToken(toks, token) ==
    IF Len(toks) = 0
    THEN Append(toks, [value |-> token, injected |-> TRUE])
    ELSE toks

----------------------------------------------------------------------------
(* State after construction, and the events of the page *)

\* what is typed into the page's fields
Typed(f) ==
    IF fieldType[f] = "email"
    THEN {<<>>, <<"a">>, <<"a", "@", "a", ".", "a">>}
    ELSE {<<>>, <<"a">>}

\* the files picked on the page
PageFiles ==
    {[type |-> "image/png", size |-> 1024],
     [type |-> "image/gif", size |-> 1024],
     [type |-> "image/png", size |-> maxSize + 1],
     [type |-> "application/pdf", size |-> maxSize]}

NoProbe == [kind |-> None]

Commit(d) ==
    /\ errs' = d.errs
    /\ errorClass' = d.errorClass
    /\ value' = d.value
    /\ files' = d.files
    /\ messages' = d.messages
    /\ timers' = d.timers
    /\ nextMsg' = d.nextMsg

Within(d) ==
    /\ \A e \in Elements : Len(d.errs[e]) <= MaxErrs
    /\ d.nextMsg <= MaxMsgs + 1

Blank ==
    /\ listeners = 1
    /\ value = [f \in Fields |-> <<>>]
    /\ files = [f \in FileFields |-> <<>>]
    /\ errs = [e \in Elements |-> <<>>]
    /\ errorClass = {}
    /\ messages = <<>>
    /\ timers = <<>>
    /\ nextMsg = 1
    /\ lastOp = [op |-> "init", target |-> None, ret |-> TRUE]

\* the token this page load generated
PageToken == generateCSRFToken("k3x9", "lz1")

Init ==
    /\ csrfToken = PageToken
    /\ tokenFields = [form \in Forms |-> injectToken(markupTokens[form], csrfToken)]
    /\ probe = NoProbe
    /\ Blank

\* a script or the user changes a field's value; no event is dispatched yet
SetValue(f, v) ==
    /\ value[f] # v
    /\ value' = [value EXCEPT ![f] = v]
    /\ lastOp' = [op |-> "set", target |-> f, ret |-> TRUE]
    /\ UNCHANGED <<csrfToken, tokenFields, listeners, files, errs, errorClass,
                   messages, timers, nextMsg, probe>>

\* the user picks a file: the browser sets files and the fake path, then
\* dispatches input and change on the field
PickFile(f, file) ==
    LET picked == [Dom EXCEPT !.files[f] = <<file>>,
                              !.value[f] = <<"C:/fakepath/", "f">>]
        r == validateFileUpload(dispatchInput(picked, FieldEl(f), listeners),
                                FieldEl(f))
    IN  /\ Within(r.dom)
        /\ Commit(r.dom)
        /\ lastOp' = [op |-> "pick", target |-> f, ret |-> r.ok]
        /\ UNCHANGED <<csrfToken, tokenFields, listeners, probe>>

BlurEvent(f) ==
    LET r == dispatchBlur(Dom, FieldEl(f), listeners)
    IN  /\ Within(r.dom)
        /\ Commit(r.dom)
        /\ lastOp' = [op |-> "blur", target |-> f, ret |-> r.ok]
        /\ UNCHANGED <<csrfToken, tokenFields, listeners, probe>>

InputEvent(f) ==
    /\ Commit(dispatchInput(Dom, FieldEl(f), listeners))
    /\ lastOp' = [op |-> "input", target |-> f, ret |-> TRUE]
    /\ UNCHANGED <<csrfToken, tokenFields, listeners, probe>>

\* a change event on the selection as it is (none, or the one kept)
ChangeEvent(f) ==
    LET r == validateFileUpload(Dom, FieldEl(f))
    IN  /\ Within(r.dom)
        /\ Commit(r.dom)
        /\ lastOp' = [op |-> "change", target |-> f, ret |-> r.ok]
        /\ UNCHANGED <<csrfToken, tokenFields, listeners, probe>>

\* ret: the event's default action was prevented
SubmitEvent(form) ==
    LET r == dispatchSubmit(Dom, form, listeners)
    IN  /\ Within(r.dom)
        /\ Commit(r.dom)
        /\ lastOp' = [op |-> "submit", target |-> form, ret |-> r.prevented]
        /\ UNCHANGED <<csrfToken, tokenFields, listeners, probe>>

\* timers of equal delay fire in the order they were set
TimerFire ==
    /\ timers # <<>>
    /\ Commit([autoRemove(Dom, Head(timers)) EXCEPT !.timers = Tail(@)])
    /\ lastOp' = [op |-> "timer", target |-> None, ret |-> TRUE]
    /\ UNCHANGED <<csrfToken, tokenFields, listeners, probe>>

\* the user works on the first form
Next ==
    \/ \E f \in FieldsIn("F1") : \E v \in Typed(f) : SetValue(f, v)
    \/ \E f \in FieldsIn("F1") : BlurEvent(f)
    \/ \E f \in FieldsIn("F1") : InputEvent(f)
    \/ \E form \in Forms : SubmitEvent(form)
    \/ TimerFire

Spec == Init /\ [][Next]_vars

\* the user works on the upload form
NextUpload ==
    \/ \E f \in FieldsIn("F2") \ FileFields : \E v \in Typed(f) : SetValue(f, v)
    \/ \E f \in FileFields : \E file \in PageFiles : PickFile(f, file)
    \/ \E f \in FieldsIn("F2") : BlurEvent(f)
    \/ \E f \in FieldsIn("F2") : InputEvent(f)
    \/ \E f \in FileFields : ChangeEvent(f)
    \/ \E form \in {"F2"} : SubmitEvent(form)
    \/ TimerFire

SpecUpload == Init /\ [][NextUpload]_vars

----------------------------------------------------------------------------
(* validateField applied to one field on its own: the field sits alone in   *)
(* the form F3                                                             *)

FieldTypes == {"text", "email", "password", "file", "textarea"}

Alphabet == {" ", "a", "@", "."}

Strings == UNION {[1..n -> Alphabet] : n \in 0..MaxLen}

ProbeEl ==
    [id |-> "probe", type |-> probe.type, required |-> probe.required,
     parent |-> "F3", held |-> probe.value]

InitField ==
    /\ csrfToken = PageToken
    /\ tokenFields = [form \in Forms |-> injectToken(markupTokens[form], csrfToken)]
    /\ probe \in [kind : {"field"}, type : FieldTypes, required : BOOLEAN,
                  value : Strings]
    /\ Blank

ValidateProbe ==
    LET r == validateField(Dom, ProbeEl)
    IN  /\ lastOp.op = "init"
        /\ Commit(r.dom)
        /\ lastOp' = [op |-> "validate", target |-> "probe", ret |-> r.ok]
        /\ UNCHANGED <<csrfToken, tokenFields, listeners, probe>>

NextField == ValidateProbe

SpecField == InitField /\ [][NextField]_vars

----------------------------------------------------------------------------
(* validateFileUpload applied to one selected file: the file is selected in *)
(* doc, which may carry an error from before                               *)

MimeTypes ==
    allowedTypes \cup {"image/gif", "text/html", ""}

Sizes == {0, 1024, 4 * 1024 * 1024, maxSize - 1, maxSize, maxSize + 1, 6 * 1024 * 1024}

InitFile ==
    /\ csrfToken = PageToken
    /\ tokenFields = [form \in Forms |-> injectToken(markupTokens[form], csrfToken)]
    /\ probe \in [kind : {"file"}, file : [type : MimeTypes, size : Sizes]]
    /\ listeners = 1
    /\ value = [f \in Fields |-> IF f = "doc" THEN <<"C:/fakepath/", "f">> ELSE <<>>]
    /\ files = [f \in FileFields |-> <<probe.file>>]
    /\ \E before \in {<<>>, <<[owner |-> "doc", msg |-> ErrRequired]>>} :
          /\ errs = [e \in Elements |-> IF e = "D2" THEN before ELSE <<>>]
          /\ errorClass = IF before = <<>> THEN {} ELSE {"doc"}
    /\ messages = <<>>
    /\ timers = <<>>
    /\ nextMsg = 1
    /\ lastOp = [op |-> "init", target |-> None, ret |-> TRUE]

ChangeProbe ==
    /\ lastOp.op = "init"
    /\ ChangeEvent("doc")

NextFile == ChangeProbe

SpecFile == InitFile /\ [][NextFile]_vars

----------------------------------------------------------------------------
(* enhanceFormSecurity on pages whose forms have zero, one or two           *)
(* csrf_token inputs in their markup, run once by the constructor and then  *)
(* again                                                                   *)

TokenRandoms == {"k3x9", "p07q"}
TokenClock == {"lz1", "lz2"}
Tokens == {generateCSRFToken(r, t) : r \in TokenRandoms, t \in TokenClock}

MarkupChoices ==
    {<<>>,
     <<[value |-> <<"server">>, injected |-> FALSE]>>,
     <<[value |-> <<"server">>, injected |-> FALSE],
       [value |-> <<"stale">>, injected |-> FALSE]>>}

InitToken ==
    /\ csrfToken \in Tokens
    /\ \E markup \in [Forms -> MarkupChoices] :
          tokenFields = [form \in Forms |-> injectToken(markup[form], csrfToken)]
    /\ probe = NoProbe
    /\ Blank

enhanceFormSecurity ==
    /\ listeners < MaxRuns
    /\ tokenFields' = [form \in Forms |-> injectToken(tokenFields[form], csrfToken)]
    /\ listeners' = listeners + 1
    /\ lastOp' = [op |-> "enhance", target |-> None, ret |-> TRUE]
    /\ UNCHANGED <<csrfToken, value, files, errs, errorClass, messages, timers,
                   nextMsg, probe>>

NextToken == enhanceFormSecurity

SpecToken == InitToken /\ [][NextToken]_vars

----------------------------------------------------------------------------
(* The timers the event loop has been given do fire *)

FairUpload == SpecUpload /\ WF_vars(TimerFire)

----------------------------------------------------------------------------
(* Properties *)

\* the annotations of field id, wherever they hang
Annotations(id) ==
    UNION {{<<e, i>> : i \in {k \in 1..Len(errs[e]) : errs[e][k].owner = id}} :
           e \in Elements}

\* field el shows message m next to it
Shows(el, m) ==
    \E i \in 1..Len(errs[el.parent]) :
        errs[el.parent][i] = [owner |-> el.id, msg |-> m]

\* el fails validateField on its current value
Fails(el) == ~validateField(Dom, el).ok

\* the message of the rule el fails
FailedRule(el) ==
    IF el.type = "email" /\ trim(valueOf(Dom, el)) # <<>> THEN ErrEmail ELSE ErrRequired

\* C1: a submit attempt is prevented if and only if at least one input of
\* the form fails validateField on the value it has at the submit, whatever
\* errors were shown or cleared before
C1_PreventedIffSomeFieldFails ==
    lastOp.op = "submit" =>
        (lastOp.ret <=>
            \E i \in 1..Len(Inputs(lastOp.target)) : Fails(Inputs(lastOp.target)[i]))

\* a submit of F1 was prevented for the e-mail address alone
C1_Witness ==
    /\ lastOp = [op |-> "submit", target |-> "F1", ret |-> TRUE]
    /\ value["name"] # <<>>
    /\ value["pw"] # <<>>
    /\ Fails(FieldEl("email"))

\* C2: after a rejected submit every failing field of the form shows its
\* own annotation with the message of the rule it failed
C2_EveryFailingFieldShowsItsError ==
    (lastOp.op = "submit" /\ lastOp.ret) =>
        \A i \in 1..Len(Inputs(lastOp.target)) :
            LET el == Inputs(lastOp.target)[i]
            IN  Fails(el) => Shows(el, FailedRule(el))

\* C3: each field has at most one error annotation
C3_AtMostOneAnnotationPerField ==
    \A f \in Fields : Cardinality(Annotations(f)) <= 1


\* s has no whitespace, one "@" that is not its first character, and after
\* it a "." that neither follows the "@" directly nor ends s
IsEmailAddress(s) ==
    /\ \A k \in 1..Len(s) : s[k] # " "
    /\ Cardinality({k \in 1..Len(s) : s[k] = "@"}) = 1
    /\ \E i \in 2..Len(s) :
          /\ s[i] = "@"
          /\ \E j \in (i + 2)..(Len(s) - 1) : s[j] = "."

\* s without its leading and trailing whitespace is empty
IsBlank(s) == \A k \in 1..Len(s) : s[k] = " "

\* s without its leading and trailing whitespace
Stripped(s) ==
    LET inked == {k \in 1..Len(s) : s[k] # " "}
    IN  IF inked = {} THEN <<>>
        ELSE SubSeq(s, CHOOSE k \in inked : \A m \in inked : k <= m,
                       CHOOSE k \in inked : \A m \in inked : m <= k)

Validated == probe.kind = "field" /\ lastOp.op = "validate"

\* C4 as stated: an e-mail field, required or not, is accepted if and only
\* if its trimmed value is empty or is an e-mail address
C4_EmailAcceptedIffBlankOrAddress ==
    (Validated /\ probe.type = "email") =>
        (lastOp.ret <=> (IsBlank(probe.value) \/ IsEmailAddress(Stripped(probe.value))))

\* C4 amended: an e-mail field is accepted if and only if its trimmed value
\* is an e-mail address, or is empty and the field is not required
C4_EmailAcceptedIffAddressOrOptionalBlank ==
    (Validated /\ probe.type = "email") =>
        (lastOp.ret <=>
            \/ IsBlank(probe.value) /\ ~probe.required
            \/ IsEmailAddress(Stripped(probe.value)))

\* a whitespace-only value of an optional e-mail field was accepted
C4_Witness ==
    /\ Validated
    /\ probe.type = "email"
    /\ ~probe.required
    /\ probe.value = <<" ", " ">>
    /\ lastOp.ret

\* C5 as stated: a required field of any type is rejected if and only if
\* its trimmed value is empty
C5_RequiredRejectedIffBlank ==
    (Validated /\ probe.required) => (~lastOp.ret <=> IsBlank(probe.value))

\* C5 amended: a required field is rejected if and only if its trimmed
\* value is empty, or its type is email and the trimmed value is no e-mail
\* address; an empty trimmed value is rejected with the required message
C5_RequiredRejectedIffBlankOrBadEmail ==
    (Validated /\ probe.required) =>
        /\ ~lastOp.ret <=>
              \/ IsBlank(probe.value)
              \/ probe.type = "email" /\ ~IsEmailAddress(Stripped(probe.value))
        /\ IsBlank(probe.value) => Shows(ProbeEl, ErrRequired)

\* a whitespace-only value of a required text field was rejected as missing
C5_Witness ==
    /\ Validated
    /\ probe.type = "text"
    /\ probe.required
    /\ probe.value = <<" ">>
    /\ ~lastOp.ret
    /\ Shows(ProbeEl, ErrRequired)

FileValidated == probe.kind = "file" /\ lastOp.op = "change"

\* C6: a selected file is rejected if and only if its type is outside the
\* allow-list or it is larger than 5,242,880 bytes; a file failing both
\* rules gets the type message and not the size message
C6_FileRejectedIffTypeOrSize ==
    FileValidated =>
        LET badType ==
                probe.file.type \notin
                    {"image/jpeg", "image/png", "application/pdf", "application/msword",
                     "application/vnd.openxmlformats-officedocument.wordprocessingml.document"}
            tooLarge == probe.file.size > 5242880
        IN  /\ ~lastOp.ret <=> (badType \/ tooLarge)
            /\ (badType /\ tooLarge) =>
                  /\ Shows(FieldEl("doc"), ErrFileType)
                  /\ ~Shows(FieldEl("doc"), ErrFileSize)

\* a file of exactly 5,242,880 bytes of an allowed type was accepted
C6_Witness ==
    /\ FileValidated
    /\ probe.file = [type |-> "application/pdf", size |-> 5242880]
    /\ lastOp.ret


PassesFileRules(file) ==
    /\ file.type \in
          {"image/jpeg", "image/png", "application/pdf", "application/msword",
           "application/vnd.openxmlformats-officedocument.wordprocessingml.document"}
    /\ file.size <= 5242880

\* C7: a rejected file is unselected (files and value emptied) and its field
\* shows an error and is marked; no file field ever keeps a file that fails
\* a rule
C7_RejectedFileIsUnselected ==
    /\ (lastOp.op \in {"pick", "change"} /\ ~lastOp.ret) =>
          /\ files[lastOp.target] = <<>>
          /\ value[lastOp.target] = <<>>
          /\ Annotations(lastOp.target) # {}
          /\ lastOp.target \in errorClass
    /\ \A f \in FileFields : files[f] = <<>> \/ PassesFileRules(files[f][1])

\* a file that is too large was picked and is gone from the field
C7_Witness ==
    /\ lastOp = [op |-> "pick", target |-> "doc", ret |-> FALSE]
    /\ files["doc"] = <<>>
    /\ Shows(FieldEl("doc"), ErrFileSize)

\* C8: at most one notification is displayed, and it is the one created last
C8_AtMostOneNotification ==
    /\ Len(messages) <= 1
    /\ messages # <<>> => messages[1].id = nextMsg - 1

\* the second of two notifications is displayed while both timers are pending
C8_Witness ==
    /\ Len(messages) = 1
    /\ messages[1].id = 2
    /\ timers = <<1, 2>>

\* C9: once no further notification is created, the display ends up empty
\* for good; and an empty display stays empty until one is created
C9_NotificationsEventuallyRemoved ==
    /\ \A n \in 1..(MaxMsgs + 1) : <>[](nextMsg = n) => <>[](messages = <<>>)
    /\ [][(messages = <<>> /\ messages' # <<>>) => nextMsg' = nextMsg + 1]_vars

\* the timer of the second notification removed it
C9_Witness ==
    /\ lastOp.op = "timer"
    /\ nextMsg = 3
    /\ timers = <<>>
    /\ messages = <<>>

MarkupTokens(form) == SelectSeq(tokenFields[form], LAMBDA t : ~t.injected)

\* C10 as stated: every form has exactly one token field and its value is
\* the session token
C10_EveryFormOneSessionToken ==
    \A form \in Forms :
        /\ Len(tokenFields[form]) = 1
        /\ tokenFields[form][1].value = csrfToken

\* C10 amended: a form whose markup has no token field has exactly one, with
\* the session token; a form whose markup has token fields has only those;
\* and no run changes them
C10_OneSessionTokenWhereNoneWas ==
    /\ [](\A form \in Forms :
            IF MarkupTokens(form) = <<>>
            THEN tokenFields[form] = <<[value |-> csrfToken, injected |-> TRUE]>>
            ELSE tokenFields[form] = MarkupTokens(form))
    /\ [][tokenFields' = tokenFields /\ csrfToken' = csrfToken]_vars

\* enhanceFormSecurity has run again on a page where one form got the token
\* and another had its own
C10_Witness ==
    /\ listeners >= 2
    /\ \E form \in Forms : MarkupTokens(form) = <<>>
    /\ \E form \in Forms : MarkupTokens(form) # <<>>


Displayed(id) == \E i \in 1..Len(messages) : messages[i].id = id

\* C11: the callback of a notification that is no longer displayed changes
\* nothing (it only leaves the timer queue); a displayed notification goes
\* away only by its own callback or by the creation of a later one
C11_StaleCallbackIsNoOp ==
    [][/\ (lastOp'.op = "timer" /\ ~Displayed(Head(timers))) =>
              /\ messages' = messages
              /\ UNCHANGED <<csrfToken, tokenFields, listeners, value, files, errs,
                             errorClass, nextMsg, probe>>
       /\ \A i \in 1..Len(messages) :
              (\A j \in 1..Len(messages') : messages'[j] # messages[i]) =>
                  \/ lastOp'.op = "timer" /\ Head(timers) = messages[i].id
                  \/ nextMsg' > nextMsg]_vars

\* the callback of the first notification fired while the second, which
\* replaced it, stays displayed
C11_Witness ==
    /\ lastOp.op = "timer"
    /\ timers = <<2>>
    /\ Displayed(2)


\* C12: blur, input, submit (rejected or not) and the timer callback leave
\* every field's value and selection as they are; a change event empties
\* the value and selection of its own file field when it rejects the file and
\* changes no other; a picked file is in its field afterwards unless it was
\* rejected
C12_ValuesPreserved ==
    [][LET op == lastOp'.op
           t == lastOp'.target
       IN  /\ op \in {"blur", "input", "submit", "timer"} =>
                  value' = value /\ files' = files
           /\ op = "change" =>
                  IF lastOp'.ret
                  THEN value' = value /\ files' = files
                  ELSE /\ value' = [value EXCEPT ![t] = <<>>]
                       /\ files' = [files EXCEPT ![t] = <<>>]
           /\ op = "pick" =>
                  /\ \A g \in Fields \ {t} : value'[g] = value[g]
                  /\ \A g \in FileFields \ {t} : files'[g] = files[g]
                  /\ lastOp'.ret => value'[t] # <<>> /\ files'[t] # <<>>
                  /\ ~lastOp'.ret => value'[t] = <<>> /\ files'[t] = <<>>]_vars

\* a submit of the upload form was rejected for the contact address, which
\* is still in its field, next to the selected file
C12_Witness ==
    /\ lastOp = [op |-> "submit", target |-> "F2", ret |-> TRUE]
    /\ value["contact"] = <<"a">>
    /\ files["doc"] # <<>>


C14_FirstFailingRuleElseClean ==
    lastOp.op = "blur" =>
        LET el == FieldEl(lastOp.target)
            v == value[lastOp.target]
        IN  IF el.type = "email" /\ ~IsBlank(v) /\ ~IsEmailAddress(Stripped(v))
            THEN ~lastOp.ret /\ Shows(el, ErrEmail)
            ELSE IF el.required /\ IsBlank(v)
            THEN ~lastOp.ret /\ Shows(el, ErrRequired)
            ELSE /\ lastOp.ret
                 /\ Annotations(el.id) = {}
                 /\ el.id \notin errorClass


\* C15: a field is marked if and only if an annotation of its own is shown
C15_MarkedIffAnnotated ==
    \A f \in Fields : f \in errorClass <=> Annotations(f) # {}

\* the annotations of field g under element e, in order
OwnedBy(e, g, shown) == SelectSeq(shown[e], LAMBDA a : a.owner = g)

\* C16: an event on one field (blur, input, change, file picked) leaves the
\* annotations and the mark of every other field as they were
C16_OtherFieldsUntouched ==
    [][lastOp'.op \in {"blur", "input", "change", "pick"} =>
          \A g \in Fields \ {lastOp'.target} :
              /\ g \in errorClass' <=> g \in errorClass
              /\ \A e \in Elements : OwnedBy(e, g, errs') = OwnedBy(e, g, errs)]_vars


\* C17: a rejected submit creates exactly one notification, of kind error
\* with the form-errors text, and it is the only one displayed; an accepted
\* submit prevents nothing, creates no notification and leaves the
\* displayed one and the pending callbacks as they are
C17_RejectedSubmitNotifiesOnce ==
    [][lastOp'.op = "submit" =>
          IF lastOp'.ret
          THEN /\ nextMsg' = nextMsg + 1
               /\ messages' =
                     <<[id |-> nextMsg,
                        text |-> "Please fix form errors before submitting.",
                        kind |-> "error"]>>
               /\ timers' = Append(timers, nextMsg)
          ELSE UNCHANGED <<nextMsg, messages, timers>>]_vars

\* the first form was rejected a second time and the second notification
\* is the one displayed
C17_Witness ==
    /\ lastOp = [op |-> "submit", target |-> "F1", ret |-> TRUE]
    /\ nextMsg = 3
    /\ Displayed(2)
    /\ Len(messages) = 1


\* the annotations of field id in the annotations shown
AnnotationsIn(shown, id) ==
    UNION {{<<e, i>> : i \in {k \in 1..Len(shown[e]) : shown[e][k].owner = id}} :
           e \in Elements}

\* C18: validateFileUpload on a selected file: accepted, the file field has
\* no annotation and no mark, the selection is kept and a success
\* notification replaces the displayed one; rejected, the field shows an
\* error and the notifications are left as they were
C18_AcceptedFileClearsAndNotifies ==
    [][(lastOp'.op = "pick" \/ (lastOp'.op = "change" /\ files[lastOp'.target] # <<>>)) =>
          LET t == lastOp'.target
          IN  IF lastOp'.ret
              THEN /\ AnnotationsIn(errs', t) = {}
                   /\ t \notin errorClass'
                   /\ files'[t] # <<>>
                   /\ nextMsg' = nextMsg + 1
                   /\ messages' =
                         <<[id |-> nextMsg, text |-> "File looks good!",
                            kind |-> "success"]>>
              ELSE /\ AnnotationsIn(errs', t) # {}
                   /\ UNCHANGED <<nextMsg, messages, timers>>]_vars


\* C19: an input event on a field leaves it with no annotation and no mark
\* whatever its value, and leaves its value as it was; an annotation of a
\* field appears only in a blur of that field or a submit of its form
C19_InputClearsOwnError ==
    [][/\ lastOp'.op = "input" =>
              /\ AnnotationsIn(errs', lastOp'.target) = {}
              /\ lastOp'.target \notin errorClass'
              /\ value' = value
              /\ files' = files
       /\ \A g \in Fields :
              (AnnotationsIn(errs, g) = {} /\ AnnotationsIn(errs', g) # {}) =>
                  \/ lastOp'.op = "blur" /\ lastOp'.target = g
                  \/ lastOp'.op = "submit" /\ g \in FieldsIn(lastOp'.target)]_vars


\* C20: a change event on a file field with no file selected is accepted
\* and changes nothing: values, selections, annotations, marks and
\* notifications are as they were, an error of an earlier rejection included
C20_EmptyChangeIsNoOp ==
    [][(lastOp'.op = "change" /\ files[lastOp'.target] = <<>>) =>
          /\ lastOp'.ret
          /\ UNCHANGED <<value, files, errs, errorClass, messages, timers,
                         nextMsg>>]_vars

\* an empty change was handled while doc shows the error of a rejected file
\* and a notification is displayed
C20_Witness ==
    /\ lastOp = [op |-> "change", target |-> "doc", ret |-> TRUE]
    /\ files["doc"] = <<>>
    /\ Shows(FieldEl("doc"), ErrFileType)
    /\ "doc" \in errorClass
    /\ messages # <<>>

====
